---- MODULE Spec2Model ----
(***************************************************************************)
(* Waters identity based encryption on a pairing-friendly curve            *)
(* (src/src/waters.rs).                                                    *)
(*                                                                         *)
(* The three groups G1, G2, Gt of prime order q are modelled by their      *)
(* discrete logarithms: an element is a number of 0..Q-1, 0 is the         *)
(* identity, group addition is addition mod Q, scalar multiplication is    *)
(* multiplication mod Q and the pairing e(a, b) is a*b mod Q (bilinear and *)
(* non-degenerate).  Affine and projective forms of a point are the same   *)
(* group element, so `.into()` does not appear.                            *)
(***************************************************************************)
EXTENDS Naturals, Sequences, FiniteSets

VARIABLES
    keys,       \* <<>> or <<[pk, sk, alpha]>>: what setup returned (alpha: its local)
    usks,       \* the user secret keys extracted so far, each with its v and r
    cts,        \* <<>> or <<[v, m, t, c]>>: the ciphertext produced by encrypt
    decs,       \* <<>> or <<[usk, m]>>: the last decrypt call and its result
    e_pc,       \* entangle, step by step: "idle", "loop", "done"
    e_pk,       \* its argument pk
    e_v,        \* its argument v
    e_i,        \* the number of (ui, vi) pairs the zip has yielded
    e_ucoll,    \* its accumulator ucoll
    e_log,      \* the group additions and selects it has performed, in order
    c_pc,       \* a codec run: "idle", "encoded", "decoded"
    c_ty,       \* the datatype encoded
    c_x,        \* the value encoded
    c_bytes,    \* the bytes handed to from_bytes
    c_hits,     \* the sub-fields of c_bytes overwritten after to_bytes
    c_out       \* what from_bytes returned, with the decode calls it made

pvars == <<keys, usks, cts, decs>>
evars == <<e_pc, e_pk, e_v, e_i, e_ucoll, e_log>>
cvars == <<c_pc, c_ty, c_x, c_bytes, c_hits, c_out>>
vars == <<keys, usks, cts, decs, e_pc, e_pk, e_v, e_i, e_ucoll, e_log,
          c_pc, c_ty, c_x, c_bytes, c_hits, c_out>>

----------------------------------------------------------------------------
(* Program constants *)

HASH_BIT_LEN == 256
HASH_BYTE_LEN == HASH_BIT_LEN \div 8
CHUNKS == HASH_BIT_LEN
G1SIZE == 48
G2SIZE == 96
GTSIZE == 288
PARAMETERSIZE == CHUNKS * G1SIZE

PUBLICKEYSIZE_NoFactor == 2 * G1SIZE + 2 * G2SIZE + CHUNKS
PUBLICKEYSIZE == 2 * G1SIZE + 2 * G2SIZE + PARAMETERSIZE

----------------------------------------------------------------------------
(* The pairing groups *)

\* The prime order q of G1, G2 and Gt
Q == 3

Scalar == 0 .. (Q - 1)
G1 == 0 .. (Q - 1)
G2 == 0 .. (Q - 1)
Gt == 0 .. (Q - 1)

\* a + b in G1, G2 or Gt
Add(a, b) == (a + b) % Q
\* a - b in G1, G2 or Gt
Sub(a, b) == (a + (Q - (b % Q))) % Q
\* a * s for a point a and a scalar s
Mul(a, s) == (a * s) % Q
\* e(a, b) for a in G1 and b in G2
pairing(a, b) == (a * b) % Q
\* subtle's conditional_select(a, b, choice): a when choice is 0, b when it is 1
conditional_select(a, b, choice) == IF choice = 1 THEN b ELSE a

----------------------------------------------------------------------------
(* Bounds of the model *)

MaxIdSeed == 5
MaxUSeed == 2
MaxProtoId == 1
MaxUsks == 2
MaxPkSeed == 1
MaxCorrupt == 2

----------------------------------------------------------------------------
(* Inputs *)

Min(a, b) == IF a <= b THEN a ELSE b

Pow2(k) == 2 ^ k

\* tiny_keccak::sha3_256 on the input numbered b: a 32-byte digest.  The
\* digests of the inputs 0 .. 4 are a mixed one, the zero digest, the
\* all-ones digest, the digest with only its first bit set and the digest
\* with only its last bit set; distinct inputs have distinct digests.
sha3_256(b) ==
    [j \in 1 .. HASH_BYTE_LEN |->
        CASE b = 0 -> (37 * j + 12) % 256
          [] b = 1 -> 0
          [] b = 2 -> 255
          [] b = 3 -> IF j = 1 THEN 128 ELSE 0
          [] b = 4 -> IF j = HASH_BYTE_LEN THEN 1 ELSE 0
          [] OTHER -> IF j = 1 THEN b ELSE ((2 * b + 1) * 29 * j + 7 * b) % 256]

\* Identity::derive(b)
Identity_derive(b) == sha3_256(b)

\* A Parameters value as rand_g1 may draw it, numbered k
rand_u(k) ==
    [i \in 1 .. CHUNKS |-> ((k + 1) * i + (i \div (k + 3)) + 1) % Q]

----------------------------------------------------------------------------
(* entangle *)

\* util::bits(slice): the n-th item (n = 1, 2, ...) the iterator yields:
\* the bytes in order, each from its most significant bit down
bit_at(slice, n) ==
    (slice[((n - 1) \div 8) + 1] \div Pow2(7 - ((n - 1) % 8))) % 2

bits(slice) == [n \in 1 .. (8 * Len(slice)) |-> bit_at(slice, n)]

\* The number of pairs pk.u.0.iter().zip(bits(&v.0)) yields
zip_len(pk, v) == Min(Len(pk.u), 8 * Len(v))

entangle_step_swapped(ucoll, ui, vi) ==
    conditional_select(Add(ui, ucoll), ucoll, vi)

\* The loop body: ucoll = conditional_select(&ucoll, &(ui + ucoll), vi)
entangle_step(ucoll, ui, vi) ==
    conditional_select(ucoll, Add(ui, ucoll), vi)

\* The loop over the pairs lo .. hi of the zip, in order, from accumulator
\* ucoll (split in halves only to keep the evaluation shallow)
entangle(pk, v) ==
    LET n == zip_len(pk, v)
        loop[lo \in 1 .. (n + 1), hi \in 0 .. n, ucoll \in G1] ==
            IF lo > hi THEN ucoll
            ELSE IF lo = hi THEN entangle_step(ucoll, pk.u[lo], bit_at(v, lo))
            ELSE LET mid == (lo + hi) \div 2
                 IN  loop[mid + 1, hi, loop[lo, mid, ucoll]]
    IN  loop[1, n, pk.uprime]

----------------------------------------------------------------------------
(* setup, extract_usk, encrypt, decrypt; the rng's draws are parameters *)

setup_no_alpha(g, alpha, g1, uprime, u) ==
    [pk |-> [g |-> g, g1 |-> g1, g2 |-> Mul(g, alpha), uprime |-> uprime, u |-> u],
     sk |-> [g1prime |-> g1]]

setup(g, alpha, g1, uprime, u) ==
    LET g2 == Mul(g, alpha)
        pk == [g |-> g, g1 |-> g1, g2 |-> g2, uprime |-> uprime, u |-> u]
        g1prime == Mul(g1, alpha)
        sk == [g1prime |-> g1prime]
    IN  [pk |-> pk, sk |-> sk]

extract_usk_d2_no_r(pk, sk, v, r) ==
    [d1 |-> Add(sk.g1prime, Mul(entangle(pk, v), r)), d2 |-> pk.g]

extract_usk(pk, sk, v, r) ==
    LET ucoll == entangle(pk, v)
        d1 == Add(sk.g1prime, Mul(ucoll, r))
        d2 == Mul(pk.g, r)
    IN  [d1 |-> d1, d2 |-> d2]

encrypt_c3_no_t(pk, v, m, t) ==
    [c1 |-> Add(Mul(pairing(pk.g1, pk.g2), t), m.gt),
     c2 |-> Mul(pk.g, t),
     c3 |-> entangle(pk, v)]

encrypt(pk, v, m, t) ==
    LET c3coll == entangle(pk, v)
        c1 == Add(Mul(pairing(pk.g1, pk.g2), t), m.gt)
        c2 == Mul(pk.g, t)
        c3 == Mul(c3coll, t)
    IN  [c1 |-> c1, c2 |-> c2, c3 |-> c3]

decrypt_swapped(usk, c) ==
    [gt |-> Sub(Add(c.c1, pairing(usk.d1, c.c2)), pairing(c.c3, usk.d2))]

decrypt(usk, c) ==
    LET num == pairing(c.c3, usk.d2)
        dem == pairing(usk.d1, c.c2)
        m == Sub(Add(c.c1, num), dem)
    IN  [gt |-> m]

\* Message::generate(rng), the rng drawing x
Message_generate(x) == [gt |-> x]

----------------------------------------------------------------------------
(* The compressed encodings of group elements and subtle's CtOption *)

\* The flag bits of the first byte of a compressed G1 or G2 point
COMPRESSION_FLAG == 128
INFINITY_FLAG == 64
SORT_FLAG == 32

\* A point and its negative share their x coordinate: here the smaller of p
\* and Q - p; the sort flag tells the two apart.
XCoord(p) == Min(p, Q - p)

\* to_compressed of a G1 (size 48) or G2 (size 96) point: the x coordinate
\* big-endian, the three flags in the top bits of the first byte
Point_to_compressed(p, size) ==
    [i \in 1 .. size |->
        IF i = 1
        THEN COMPRESSION_FLAG
             + (IF p = 0 THEN INFINITY_FLAG ELSE 0)
             + (IF p # 0 /\ p > Q - p THEN SORT_FLAG ELSE 0)
        ELSE IF i = size /\ p # 0 THEN XCoord(p)
        ELSE 0]

\* from_compressed of a G1 or G2 point: a CtOption, some when the flags are
\* consistent and x is the coordinate of a point of the group
Point_from_compressed(bytes, size) ==
    LET compression == bytes[1] \div COMPRESSION_FLAG
        infinity == (bytes[1] \div INFINITY_FLAG) % 2
        sort == (bytes[1] \div SORT_FLAG) % 2
        highzero == /\ bytes[1] % SORT_FLAG = 0
                    /\ \A i \in 2 .. (size - 1) : bytes[i] = 0
        x == bytes[size]
        isinf == infinity = 1 /\ sort = 0 /\ highzero /\ x = 0
        ispoint == infinity = 0 /\ highzero /\ x >= 1 /\ 2 * x < Q
        is_some == Len(bytes) = size /\ compression = 1 /\ (isinf \/ ispoint)
    IN  [value |-> IF is_some /\ ispoint
                   THEN (IF sort = 1 THEN Q - x ELSE x)
                   ELSE 0,
         is_some |-> is_some]

G1_to_compressed(p) == Point_to_compressed(p, G1SIZE)
G1_from_compressed(bytes) == Point_from_compressed(bytes, G1SIZE)
G2_to_compressed(p) == Point_to_compressed(p, G2SIZE)
G2_from_compressed(bytes) == Point_from_compressed(bytes, G2SIZE)

\* to_compressed of a Gt element: big-endian, no flags
Gt_to_compressed(p) == [i \in 1 .. GTSIZE |-> IF i = GTSIZE THEN p ELSE 0]

Gt_from_compressed(bytes) ==
    LET is_some == /\ Len(bytes) = GTSIZE
                   /\ \A i \in 1 .. (GTSIZE - 1) : bytes[i] = 0
                   /\ bytes[GTSIZE] < Q
    IN  [value |-> IF is_some THEN bytes[GTSIZE] ELSE 0, is_some |-> is_some]

\* G1Affine::default(), G2Affine::default(), Gt::default(): the identity
Point_default == 0

\* subtle's Choice of a flag
Choice(is_some) == IF is_some THEN 1 ELSE 0

\* CtOption::map: f is applied whether or not there is a value, to
\* T::conditional_select(&T::default(), &self.value, self.is_some)
CtMap(o, default, select(_, _, _), f(_)) ==
    [value |-> f(select(default, o.value, Choice(o.is_some))),
     is_some |-> o.is_some]

\* CtOption::and_then: f is applied in the same way, and the flags are
\* combined with &
CtAndThen(o, default, select(_, _, _), f(_)) ==
    LET tmp == f(select(default, o.value, Choice(o.is_some)))
    IN  [value |-> tmp.value, is_some |-> tmp.is_some /\ o.is_some]

\* The bytes off+1 .. off+size of an array
array_ref(bytes, off, size) == SubSeq(bytes, off + 1, off + size)

\* One from_compressed call as a from_bytes records it: the codec, the
\* offset of its input and the flag it returned
Call(kind, at, o) == [kind |-> kind, at |-> at, ok |-> o.is_some]

\* What from_bytes returns: the CtOption o and the from_compressed calls made
Decoded(o, calls) == [value |-> o.value, is_some |-> o.is_some, calls |-> calls]

----------------------------------------------------------------------------
(* to_bytes and from_bytes *)

\* Parameters::default()
Parameters_default == [i \in 1 .. CHUNKS |-> Point_default]

\* Parameters::conditional_select(a, b, choice), point by point
Parameters_conditional_select(a, b, choice) ==
    [i \in 1 .. CHUNKS |-> conditional_select(a[i], b[i], choice)]

Parameters_to_bytes(u) ==
    [x \in 1 .. PARAMETERSIZE |->
        G1_to_compressed(u[((x - 1) \div G1SIZE) + 1])[((x - 1) % G1SIZE) + 1]]

Parameters_from_bytes_LastFlag(bytes) ==
    LET d == [i \in 0 .. (CHUNKS - 1) |->
                 G1_from_compressed(array_ref(bytes, i * G1SIZE, G1SIZE))]
    IN  Decoded([value |-> [i \in 1 .. CHUNKS |-> d[i - 1].value],
                 is_some |-> d[CHUNKS - 1].is_some],
                [i \in 1 .. CHUNKS |-> Call("G1", (i - 1) * G1SIZE, d[i - 1])])

Parameters_from_bytes_Reversed(bytes) ==
    LET d == [i \in 0 .. (CHUNKS - 1) |->
                 G1_from_compressed(array_ref(bytes, i * G1SIZE, G1SIZE))]
    IN  Decoded([value |-> [i \in 1 .. CHUNKS |-> d[CHUNKS - i].value],
                 is_some |-> \A i \in 0 .. (CHUNKS - 1) : d[i].is_some],
                [i \in 1 .. CHUNKS |-> Call("G1", (i - 1) * G1SIZE, d[i - 1])])

\* The loop decodes chunk i for every i of 0 .. CHUNKS-1: res[i] is set to
\* the value of the CtOption (map runs its closure either way) and is_some is
\* and-ed with its flag
Parameters_from_bytes(bytes) ==
    LET d == [i \in 0 .. (CHUNKS - 1) |->
                 G1_from_compressed(array_ref(bytes, i * G1SIZE, G1SIZE))]
    IN  Decoded([value |-> [i \in 1 .. CHUNKS |->
                               conditional_select(Point_default, d[i - 1].value,
                                                  Choice(d[i - 1].is_some))],
                 is_some |-> \A i \in 0 .. (CHUNKS - 1) : d[i].is_some],
                [i \in 1 .. CHUNKS |-> Call("G1", (i - 1) * G1SIZE, d[i - 1])])

\* res = [0u8; PUBLICKEYSIZE], split by mut_array_refs into g, g1, g2, uprime
\* and u, each then assigned
PublicKey_to_bytes(pk) ==
    LET g == G2_to_compressed(pk.g)
        g1 == G1_to_compressed(pk.g1)
        g2 == G2_to_compressed(pk.g2)
        uprime == G1_to_compressed(pk.uprime)
        u == Parameters_to_bytes(pk.u)
    IN  [x \in 1 .. PUBLICKEYSIZE |->
            IF x <= 96 THEN g[x]
            ELSE IF x <= 96 + 48 THEN g1[x - 96]
            ELSE IF x <= 96 + 48 + 96 THEN g2[x - (96 + 48)]
            ELSE IF x <= 96 + 48 + 96 + 48 THEN uprime[x - (96 + 48 + 96)]
            ELSE IF x - (96 + 48 + 96 + 48) <= Len(u) THEN u[x - (96 + 48 + 96 + 48)]
            ELSE 0]

PublicKey_from_bytes_ShortCircuit(bytes) ==
    LET g == G2_from_compressed(array_ref(bytes, 0, 96))
        g1 == G1_from_compressed(array_ref(bytes, 96, 48))
        g2 == G2_from_compressed(array_ref(bytes, 96 + 48, 96))
        uprime == G1_from_compressed(array_ref(bytes, 96 + 48 + 96, 48))
        u == Parameters_from_bytes(array_ref(bytes, 96 + 48 + 96 + 48, PARAMETERSIZE))
        none == [value |-> <<>>, is_some |-> FALSE]
    IN  IF ~g.is_some THEN Decoded(none, <<Call("G2", 0, g)>>)
        ELSE IF ~g1.is_some
        THEN Decoded(none, <<Call("G2", 0, g), Call("G1", 96, g1)>>)
        ELSE IF ~g2.is_some
        THEN Decoded(none, <<Call("G2", 0, g), Call("G1", 96, g1),
                             Call("G2", 96 + 48, g2)>>)
        ELSE Decoded(
                [value |-> [g |-> g.value, g1 |-> g1.value, g2 |-> g2.value,
                            uprime |-> uprime.value, u |-> u.value],
                 is_some |-> uprime.is_some /\ u.is_some],
                <<Call("G2", 0, g), Call("G1", 96, g1), Call("G2", 96 + 48, g2),
                  Call("G1", 96 + 48 + 96, uprime)>>
                \o [k \in 1 .. Len(u.calls) |->
                       [u.calls[k] EXCEPT !.at = @ + 96 + 48 + 96 + 48]])

\* The five decodes are made first, in this order; the and_then chain then
\* builds the PublicKey and combines the flags
PublicKey_from_bytes(bytes) ==
    LET g == G2_from_compressed(array_ref(bytes, 0, 96))
        g1 == G1_from_compressed(array_ref(bytes, 96, 48))
        g2 == G2_from_compressed(array_ref(bytes, 96 + 48, 96))
        uprime == G1_from_compressed(array_ref(bytes, 96 + 48 + 96, 48))
        u == Parameters_from_bytes(array_ref(bytes, 96 + 48 + 96 + 48, PARAMETERSIZE))
    IN  Decoded(
            CtAndThen(g, Point_default, conditional_select, LAMBDA gv :
                CtAndThen(g1, Point_default, conditional_select, LAMBDA g1v :
                    CtAndThen(g2, Point_default, conditional_select, LAMBDA g2v :
                        CtAndThen(uprime, Point_default, conditional_select, LAMBDA uprimev :
                            CtMap(u, Parameters_default, Parameters_conditional_select, LAMBDA uv :
                                [g |-> gv, g1 |-> g1v, g2 |-> g2v,
                                 uprime |-> uprimev, u |-> uv]))))),
            <<Call("G2", 0, g), Call("G1", 96, g1), Call("G2", 96 + 48, g2),
              Call("G1", 96 + 48 + 96, uprime)>>
            \o [k \in 1 .. Len(u.calls) |->
                   [u.calls[k] EXCEPT !.at = @ + 96 + 48 + 96 + 48]])

SecretKey_to_bytes(sk) == G1_to_compressed(sk.g1prime)

SecretKey_from_bytes(bytes) ==
    LET g1prime == G1_from_compressed(bytes)
    IN  Decoded(CtMap(g1prime, Point_default, conditional_select, LAMBDA p : [g1prime |-> p]),
                <<Call("G1", 0, g1prime)>>)

UserSecretKey_to_bytes(usk) ==
    G1_to_compressed(usk.d1) \o G2_to_compressed(usk.d2)

UserSecretKey_from_bytes(bytes) ==
    LET d1 == G1_from_compressed(array_ref(bytes, 0, 48))
        d2 == G2_from_compressed(array_ref(bytes, 48, 96))
    IN  Decoded(CtAndThen(d1, Point_default, conditional_select, LAMBDA d1v :
                    CtMap(d2, Point_default, conditional_select, LAMBDA d2v :
                        [d1 |-> d1v, d2 |-> d2v])),
                <<Call("G1", 0, d1), Call("G2", 48, d2)>>)

Message_to_bytes(m) == Gt_to_compressed(m.gt)

Message_from_bytes(bytes) ==
    LET gt == Gt_from_compressed(bytes)
    IN  Decoded(CtMap(gt, Point_default, conditional_select, LAMBDA x : [gt |-> x]),
                <<Call("Gt", 0, gt)>>)

CipherText_to_bytes(c) ==
    Gt_to_compressed(c.c1) \o G2_to_compressed(c.c2) \o G1_to_compressed(c.c3)

CipherText_from_bytes(bytes) ==
    LET c1 == Gt_from_compressed(array_ref(bytes, 0, 288))
        c2 == G2_from_compressed(array_ref(bytes, 288, 96))
        c3 == G1_from_compressed(array_ref(bytes, 288 + 96, 48))
    IN  Decoded(CtAndThen(c1, Point_default, conditional_select, LAMBDA c1v :
                    CtAndThen(c2, Point_default, conditional_select, LAMBDA c2v :
                        CtMap(c3, Point_default, conditional_select, LAMBDA c3v :
                            [c1 |-> c1v, c2 |-> c2v, c3 |-> c3v]))),
                <<Call("Gt", 0, c1), Call("G2", 288, c2), Call("G1", 288 + 96, c3)>>)

----------------------------------------------------------------------------
(* The protocol: one PKG, its user secret keys, one ciphertext *)

EIdle ==
    /\ e_pc = "idle" /\ e_pk = <<>> /\ e_v = <<>> /\ e_i = 0
    /\ e_ucoll = 0 /\ e_log = <<>>

CIdle ==
    /\ c_pc = "idle" /\ c_ty = "" /\ c_x = <<>> /\ c_bytes = <<>>
    /\ c_hits = {} /\ c_out = <<>>

PInit == keys = <<>> /\ usks = {} /\ cts = <<>> /\ decs = <<>>

Init == PInit /\ EIdle /\ CIdle

\* setup(rng), the rng drawing g, alpha, g1, uprime and, for u, the points
\* numbered 0 (entangle is run over other u on its own, below).  Beside what
\* setup returns, the state keeps its local alpha and, for the identities of
\* the model, what entangle(pk, v) yields.
Setup ==
    /\ keys = <<>>
    /\ \E g \in G2, alpha \in Scalar, g1 \in G1, uprime \in G1 :
          LET r == setup(g, alpha, g1, uprime, rand_u(0))
          IN  keys' = <<[pk |-> r.pk, sk |-> r.sk, alpha |-> alpha,
                         ucoll |-> [b \in 0 .. MaxProtoId |->
                                       entangle(r.pk, Identity_derive(b))]]>>
    /\ UNCHANGED <<usks, cts, decs>>
    /\ UNCHANGED evars /\ UNCHANGED cvars

\* extract_usk(pk, sk, v, rng) for the identity of input b, the rng drawing r.
\* The PKG hands out its keys before the message is encrypted.
ExtractUsk ==
    /\ keys # <<>>
    /\ cts = <<>>
    /\ Cardinality(usks) < MaxUsks
    /\ \E b \in 0 .. MaxProtoId, r \in Scalar :
          usks' = usks \cup
              {[id |-> b, r |-> r,
                usk |-> extract_usk(keys[1].pk, keys[1].sk, Identity_derive(b), r)]}
    /\ UNCHANGED <<keys, cts, decs>>
    /\ UNCHANGED evars /\ UNCHANGED cvars

\* encrypt(pk, v, m, rng) for the identity of input b and the message
\* Message::generate drew, the rng drawing t
Encrypt ==
    /\ keys # <<>>
    /\ cts = <<>>
    /\ \E b \in 0 .. MaxProtoId, x \in Gt, t \in Scalar :
          LET m == Message_generate(x)
          IN  cts' = <<[id |-> b, m |-> m, t |-> t,
                        c |-> encrypt(keys[1].pk, Identity_derive(b), m, t)]>>
    /\ UNCHANGED <<keys, usks, decs>>
    /\ UNCHANGED evars /\ UNCHANGED cvars

\* decrypt(usk, c) with one of the user secret keys; a run records one
\* decryption
Decrypt ==
    /\ cts # <<>>
    /\ decs = <<>>
    /\ \E k \in usks :
          decs' = <<[usk |-> k, m |-> decrypt(k.usk, cts[1].c)]>>
    /\ UNCHANGED <<keys, usks, cts>>
    /\ UNCHANGED evars /\ UNCHANGED cvars

Next == Setup \/ ExtractUsk \/ Encrypt \/ Decrypt

Spec == Init /\ [][Next]_vars

----------------------------------------------------------------------------
(* Properties of the protocol *)

\* C1: whenever decrypt was called with a user secret key extracted for the
\* identity the ciphertext was encrypted to, it returned exactly the message
\* that was encrypted, whatever setup, r and t drew.
C1_DecryptRecoversMessage ==
    \A i \in 1 .. Len(decs) :
        decs[i].usk.id = cts[1].id => decs[i].m = cts[1].m

\* C1's case: a decryption with the right key where nothing is degenerate
C1_Witness ==
    /\ decs # <<>>
    /\ decs[1].usk.id = cts[1].id
    /\ decs[1].usk.r # 0 /\ cts[1].t # 0 /\ cts[1].m.gt # 0
    /\ keys[1].alpha # 0 /\ keys[1].pk.g # 0 /\ keys[1].pk.g1 # 0
    /\ keys[1].ucoll[cts[1].id] # 0
    /\ decs[1].m = cts[1].m

\* Both of two keys extracted for the identity of the ciphertext decrypt it
\* to the message
BothDecrypt(a, b) ==
    (cts # <<>> /\ cts[1].id = a.id) =>
        /\ decrypt(a.usk, cts[1].c) = cts[1].m
        /\ decrypt(b.usk, cts[1].c) = cts[1].m

\* C5 as stated: two keys extracted for one identity with different r both
\* decrypt to the message, and the keys differ whenever the r differ.
C5_AsStated ==
    \A a \in usks, b \in usks :
        a.id = b.id =>
            /\ BothDecrypt(a, b)
            /\ (a.r # b.r => a.usk # b.usk)

\* C5, amended: two keys extracted for one identity v both decrypt every
\* ciphertext for v to the message; with different r the keys differ, except
\* when pk.g and entangle(pk, v) are both the identity element, where every
\* r yields the same key.
C5_KeysDifferUnlessDegenerate ==
    \A a \in usks, b \in usks :
        a.id = b.id =>
            /\ BothDecrypt(a, b)
            /\ (a.r # b.r =>
                   (a.usk # b.usk <=>
                       (keys[1].pk.g # 0 \/ keys[1].ucoll[a.id] # 0)))

\* C5's case: two different keys for the identity of a ciphertext, one of
\* which was used to decrypt it
C5_Witness ==
    /\ decs # <<>> /\ decs[1].m = cts[1].m
    /\ \E a \in usks, b \in usks :
          /\ a.id = cts[1].id /\ b.id = cts[1].id
          /\ a.r # b.r /\ a.usk # b.usk
          /\ cts[1].t # 0 /\ keys[1].alpha # 0

\* C6 as stated: decrypting with a key extracted for another identity
\* returns a Gt element unequal to the message.
C6_AsStated ==
    \A i \in 1 .. Len(decs) :
        decs[i].usk.id # cts[1].id =>
            /\ decs[i].m.gt \in Gt
            /\ decs[i].m # cts[1].m

\* m + t*r*e(E(v) - E(v'), g)
WrongKeyResult(m, t, r, ev, evp, g) ==
    Add(m, Mul(Mul(pairing(Sub(ev, evp), g), t), r))

\* C6, amended: decrypting a ciphertext for v with a key extracted for
\* v' # v signals no error and returns the Gt element
\* m + t*r*e(E(v) - E(v'), g); that is unequal to m unless t = 0, r = 0, g is
\* the identity element or entangle yields the same point for v and v'.
C6_WrongKeyResult ==
    \A i \in 1 .. Len(decs) :
        decs[i].usk.id # cts[1].id =>
            LET ev == keys[1].ucoll[cts[1].id]
                evp == keys[1].ucoll[decs[i].usk.id]
            IN  /\ decs[i].m.gt \in Gt
                /\ decs[i].m.gt =
                       WrongKeyResult(cts[1].m.gt, cts[1].t, decs[i].usk.r,
                                      ev, evp, keys[1].pk.g)
                /\ (decs[i].m # cts[1].m <=>
                       /\ cts[1].t # 0 /\ decs[i].usk.r # 0
                       /\ keys[1].pk.g # 0 /\ ev # evp)

\* C6's case: a decryption with the key of another identity that returned
\* something else than the message
C6_Witness ==
    /\ decs # <<>>
    /\ decs[1].usk.id # cts[1].id
    /\ Identity_derive(decs[1].usk.id) # Identity_derive(cts[1].id)
    /\ decs[1].m # cts[1].m

\* C10: what setup returns satisfies g2 = alpha*g and g1prime = alpha*g1 for
\* the alpha it drew, hence e(g1, g2) = e(g1prime, g); u holds CHUNKS = 256
\* points; pk and sk have no field holding alpha.
C10_SetupRelations ==
    \A i \in 1 .. Len(keys) :
        LET pk == keys[i].pk
            sk == keys[i].sk
            alpha == keys[i].alpha
        IN  /\ pk.g2 = Mul(pk.g, alpha)
            /\ sk.g1prime = Mul(pk.g1, alpha)
            /\ pairing(pk.g1, pk.g2) = pairing(sk.g1prime, pk.g)
            /\ Len(pk.u) = 256
            /\ pk.u \in [1 .. 256 -> G1]
            /\ DOMAIN pk = {"g", "g1", "g2", "uprime", "u"}
            /\ DOMAIN sk = {"g1prime"}

\* C10's case: setup drew an alpha that is neither 0 nor 1 and points g, g1
\* that are not the identity
C10_Witness ==
    /\ keys # <<>>
    /\ keys[1].alpha > 1 /\ keys[1].pk.g # 0 /\ keys[1].pk.g1 # 0
    /\ keys[1].pk.g2 # keys[1].pk.g /\ keys[1].sk.g1prime # keys[1].pk.g1

----------------------------------------------------------------------------
(* entangle, one loop iteration at a time *)

\* entangle(pk, v) is entered: ucoll = pk.uprime.into(), the zip at its start
EntangleCall ==
    /\ e_pc = "idle"
    /\ \E uprime \in G1, k \in 0 .. MaxUSeed, b \in 0 .. MaxIdSeed :
          /\ e_pk' = setup(1, 1, 1, uprime, rand_u(k)).pk
          /\ e_v' = Identity_derive(b)
          /\ e_ucoll' = uprime
    /\ e_i' = 0
    /\ e_log' = <<>>
    /\ e_pc' = "loop"
    /\ UNCHANGED pvars /\ UNCHANGED cvars

EntangleIter_Branching ==
    /\ e_pc = "loop"
    /\ e_i < zip_len(e_pk, e_v)
    /\ LET ui == e_pk.u[e_i + 1]
           vi == bit_at(e_v, e_i + 1)
       IN  IF vi = 1
           THEN /\ e_ucoll' = Add(ui, e_ucoll)
                /\ e_log' = Append(e_log, <<"add", e_i>>)
           ELSE UNCHANGED <<e_ucoll, e_log>>
    /\ e_i' = e_i + 1
    /\ UNCHANGED <<e_pc, e_pk, e_v>>
    /\ UNCHANGED pvars /\ UNCHANGED cvars

\* One iteration of the loop: the zip yields (ui, vi); ui + ucoll is computed,
\* then conditional_select keeps ucoll or the sum
EntangleIter ==
    /\ e_pc = "loop"
    /\ e_i < zip_len(e_pk, e_v)
    /\ LET ui == e_pk.u[e_i + 1]
           vi == bit_at(e_v, e_i + 1)
       IN  /\ e_ucoll' = entangle_step(e_ucoll, ui, vi)
           /\ e_log' = Append(Append(e_log, <<"add", e_i>>), <<"select", e_i>>)
    /\ e_i' = e_i + 1
    /\ UNCHANGED <<e_pc, e_pk, e_v>>
    /\ UNCHANGED pvars /\ UNCHANGED cvars

\* The zip is exhausted: entangle returns ucoll
EntangleReturn ==
    /\ e_pc = "loop"
    /\ e_i = zip_len(e_pk, e_v)
    /\ e_pc' = "done"
    /\ UNCHANGED <<e_pk, e_v, e_i, e_ucoll, e_log>>
    /\ UNCHANGED pvars /\ UNCHANGED cvars

NextEntangle == EntangleCall \/ EntangleIter \/ EntangleReturn

SpecEntangle == Init /\ [][NextEntangle]_vars

----------------------------------------------------------------------------
(* Properties of entangle *)

\* Whether bit position k (0 the least significant) of byte j (from 0) of v
\* is set
BitSet(v, j, k) == (v[j + 1] \div Pow2(k)) % 2 = 1

\* u_i for the linear bit index 8*j + (7 - k), counted from 0, when that bit
\* of v is set, else the identity element
Term(u, v, j, k) == IF BitSet(v, j, k) THEN u[8 * j + (7 - k) + 1] ELSE 0

\* The sum of the u_i whose identity bit is 1
SelectedSum(u, v) ==
    LET byte(j) == (Term(u, v, j, 0) + Term(u, v, j, 1) + Term(u, v, j, 2)
                    + Term(u, v, j, 3) + Term(u, v, j, 4) + Term(u, v, j, 5)
                    + Term(u, v, j, 6) + Term(u, v, j, 7)) % Q
        S[j \in 0 .. HASH_BYTE_LEN] ==
            IF j = 0 THEN 0 ELSE (S[j - 1] + byte(j - 1)) % Q
    IN  S[HASH_BYTE_LEN]

ZeroDigest == [j \in 1 .. 32 |-> 0]
OnesDigest == [j \in 1 .. 32 |-> 255]

\* C7: entangle returns u' plus the sum of exactly the u_i whose identity bit
\* (linear index 8*j + (7 - k) for bit position k of byte j) is 1; u' for the
\* zero digest, u' plus all 256 u_i for the all-ones digest.  The result of
\* the loop is that of the function the protocol uses.
C7_EntangleSum ==
    e_pc = "done" =>
        /\ e_ucoll = Add(e_pk.uprime, SelectedSum(e_pk.u, e_v))
        /\ e_ucoll = entangle(e_pk, e_v)
        /\ (e_v = ZeroDigest => e_ucoll = e_pk.uprime)
        /\ (e_v = OnesDigest =>
               e_ucoll = Add(e_pk.uprime, SelectedSum(e_pk.u, OnesDigest)))

\* C7's case: entangle has returned for a digest with bits of both values,
\* and the selected u_i changed the accumulator
C7_Witness ==
    /\ e_pc = "done"
    /\ e_v # ZeroDigest /\ e_v # OnesDigest
    /\ \E j \in 0 .. 31, k \in 0 .. 7 : BitSet(e_v, j, k)
    /\ \E j \in 0 .. 31, k \in 0 .. 7 : ~BitSet(e_v, j, k)
    /\ e_ucoll # e_pk.uprime

\* The operations of the first n iterations, whatever the identity
FixedLog(n) ==
    [x \in 1 .. (2 * n) |->
        IF x % 2 = 1 THEN <<"add", (x - 1) \div 2>>
        ELSE <<"select", (x - 2) \div 2>>]

\* C9: after n iterations entangle has performed, for each position
\* 0 .. n-1 in order, one addition and one select, whatever the identity
\* bits; it returns only after all 256 positions.
C9_SameStepsForEveryIdentity ==
    e_pc # "idle" =>
        /\ e_log = FixedLog(e_i)
        /\ e_i <= 256
        /\ (e_pc = "done" => e_i = 256)

\* C9's case: entangle has returned for a digest with a zero bit
C9_Witness ==
    /\ e_pc = "done"
    /\ e_i = 256
    /\ \E j \in 0 .. 31, k \in 0 .. 7 : ~BitSet(e_v, j, k)
    /\ Len(e_log) = 512

----------------------------------------------------------------------------
(* Encoding a value, overwriting bytes of the encoding, decoding it *)

Types == {"PublicKey", "SecretKey", "UserSecretKey", "Message", "CipherText"}

\* A PublicKey of distinct fields, numbered s
PublicKeySample(s) ==
    setup((s + 1) % Q, 2, (s + 2) % Q, s % Q, rand_u(s)).pk

\* The values of each datatype that are encoded
Values(ty) ==
    CASE ty = "PublicKey" -> {PublicKeySample(s) : s \in 0 .. MaxPkSeed}
      [] ty = "SecretKey" -> [g1prime : G1]
      [] ty = "UserSecretKey" -> [d1 : G1, d2 : G2]
      [] ty = "Message" -> [gt : Gt]
      [] ty = "CipherText" -> [c1 : Gt, c2 : G2, c3 : G1]

to_bytes(ty, x) ==
    CASE ty = "PublicKey" -> PublicKey_to_bytes(x)
      [] ty = "SecretKey" -> SecretKey_to_bytes(x)
      [] ty = "UserSecretKey" -> UserSecretKey_to_bytes(x)
      [] ty = "Message" -> Message_to_bytes(x)
      [] ty = "CipherText" -> CipherText_to_bytes(x)

from_bytes(ty, bytes) ==
    CASE ty = "PublicKey" -> PublicKey_from_bytes(bytes)
      [] ty = "SecretKey" -> SecretKey_from_bytes(bytes)
      [] ty = "UserSecretKey" -> UserSecretKey_from_bytes(bytes)
      [] ty = "Message" -> Message_from_bytes(bytes)
      [] ty = "CipherText" -> CipherText_from_bytes(bytes)

\* The size of a compressed element
SizeOf(kind) ==
    CASE kind = "G1" -> 48
      [] kind = "G2" -> 96
      [] kind = "Gt" -> 288

Field(kind, at) == [kind |-> kind, at |-> at]

\* The number of compressed elements an encoding is made of
NumFields(ty) ==
    CASE ty = "PublicKey" -> 4 + 256
      [] ty = "SecretKey" -> 1
      [] ty = "UserSecretKey" -> 2
      [] ty = "Message" -> 1
      [] ty = "CipherText" -> 3

\* The k-th compressed element of an encoding, with its byte offset
FieldAt(ty, k) ==
    CASE ty = "PublicKey" ->
            (CASE k = 1 -> Field("G2", 0)
               [] k = 2 -> Field("G1", 96)
               [] k = 3 -> Field("G2", 144)
               [] k = 4 -> Field("G1", 240)
               [] OTHER -> Field("G1", 288 + 48 * (k - 5)))
      [] ty = "SecretKey" -> Field("G1", 0)
      [] ty = "UserSecretKey" -> IF k = 1 THEN Field("G1", 0) ELSE Field("G2", 48)
      [] ty = "Message" -> Field("Gt", 0)
      [] ty = "CipherText" ->
            (CASE k = 1 -> Field("Gt", 0)
               [] k = 2 -> Field("G2", 288)
               [] OTHER -> Field("G1", 384))

\* The layout of each encoding: its constituent compressed elements in order
Layout(ty) == [k \in 1 .. NumFields(ty) |-> FieldAt(ty, k)]

\* How a byte of a field is overwritten: the first byte by 0xff, the sort
\* flag flipped, the last byte incremented, a middle byte set to 1
Overwrites == {"first", "sort", "last", "middle"}

Overwrite(bytes, f, w) ==
    LET size == SizeOf(f.kind)
        pos == CASE w = "first" -> f.at + 1
                 [] w = "sort" -> f.at + 1
                 [] w = "last" -> f.at + size
                 [] w = "middle" -> f.at + (size \div 2)
        old == bytes[pos]
        new == CASE w = "first" -> 255
                 [] w = "sort" -> IF (old \div SORT_FLAG) % 2 = 1
                                  THEN old - SORT_FLAG ELSE old + SORT_FLAG
                 [] w = "last" -> (old + 1) % 256
                 [] w = "middle" -> 1
    IN  [bytes EXCEPT ![pos] = new]

\* The fields that are overwritten in every way (every field is overwritten
\* in its first byte): the first five, a middle one and the last
IsProbe(ty, k) == k <= 5 \/ k = 132 \/ k = NumFields(ty)

\* The fields a second and later overwrite may hit: the first and the last
IsEnd(ty, k) == k = 1 \/ k = NumFields(ty)

\* x.to_bytes()
Encode ==
    /\ c_pc = "idle"
    /\ \E ty \in Types :
          \E x \in Values(ty) :
              /\ c_ty' = ty
              /\ c_x' = x
              /\ c_bytes' = to_bytes(ty, x)
    /\ c_hits' = {}
    /\ c_pc' = "encoded"
    /\ UNCHANGED c_out
    /\ UNCHANGED pvars /\ UNCHANGED evars

\* The caller's bytes differ from the encoding in one more field
Corrupt ==
    /\ c_pc = "encoded"
    /\ Cardinality(c_hits) < MaxCorrupt
    /\ \E k \in (1 .. NumFields(c_ty)) \ c_hits, w \in Overwrites :
          /\ w = "first" \/ IsProbe(c_ty, k)
          /\ c_hits = {} \/ (IsEnd(c_ty, k) /\ w = "first")
          /\ c_bytes' = Overwrite(c_bytes, FieldAt(c_ty, k), w)
          /\ c_hits' = c_hits \cup {k}
    /\ UNCHANGED <<c_pc, c_ty, c_x, c_out>>
    /\ UNCHANGED pvars /\ UNCHANGED evars

\* from_bytes(&bytes)
Decode ==
    /\ c_pc = "encoded"
    /\ c_out' = from_bytes(c_ty, c_bytes)
    /\ c_pc' = "decoded"
    /\ UNCHANGED <<c_ty, c_x, c_bytes, c_hits>>
    /\ UNCHANGED pvars /\ UNCHANGED evars

NextCodec == Encode \/ Corrupt \/ Decode

SpecCodec == Init /\ [][NextCodec]_vars

----------------------------------------------------------------------------
(* Properties of the encodings *)

\* C2: from_bytes of what to_bytes produced is some, and its value is the
\* value encoded, field by field, for every datatype.
C2_RoundTrip ==
    (c_pc = "decoded" /\ c_hits = {}) =>
        /\ c_out.is_some
        /\ c_out.value = c_x
        /\ (c_ty = "PublicKey" =>
               \A i \in 1 .. 256 : c_out.value.u[i] = c_x.u[i])

\* C2's case: a PublicKey whose points are not all alike was encoded and
\* decoded
C2_Witness ==
    /\ c_pc = "decoded" /\ c_hits = {} /\ c_ty = "PublicKey"
    /\ c_x.g # c_x.g2 /\ c_x.g1 # c_x.uprime
    /\ \E i \in 1 .. 256, j \in 1 .. 256 : c_x.u[i] # c_x.u[j]
    /\ c_out.is_some /\ c_out.value = c_x

\* C3 as stated: PublicKey::to_bytes yields 12480 bytes.
C3_AsStated ==
    (c_pc # "idle" /\ c_ty = "PublicKey") => Len(c_bytes) = 12480

\* C3, amended: PublicKey::to_bytes yields 12576 bytes, the sum of the sizes
\* of g (96), g1 (48), g2 (96), u' (48) and the 256 points of u (12288).
C3_PublicKeyLength ==
    (c_pc # "idle" /\ c_ty = "PublicKey") =>
        /\ Len(c_bytes) = 12576
        /\ Len(c_bytes) = 96 + 48 + 96 + 48 + 256 * 48

\* C3's case: a PublicKey has been encoded
C3_Witness ==
    /\ c_pc = "encoded" /\ c_ty = "PublicKey" /\ c_hits = {}
    /\ Len(c_bytes) = PUBLICKEYSIZE

\* Whether the compressed element at field f of bytes decodes
FieldDecodes(bytes, f) ==
    LET chunk == SubSeq(bytes, f.at + 1, f.at + SizeOf(f.kind))
    IN  CASE f.kind = "G1" -> G1_from_compressed(chunk).is_some
          [] f.kind = "G2" -> G2_from_compressed(chunk).is_some
          [] f.kind = "Gt" -> Gt_from_compressed(chunk).is_some

\* C4: from_bytes returns some exactly when every constituent compressed
\* element of its input decodes.
C4_SomeIffEveryFieldDecodes ==
    c_pc = "decoded" =>
        (c_out.is_some <=>
            \A k \in 1 .. NumFields(c_ty) : FieldDecodes(c_bytes, FieldAt(c_ty, k)))

\* C4's case: one byte in the middle of the Parameters region of a PublicKey
\* was overwritten, that point alone fails to decode, and from_bytes returned
\* none
C4_Witness ==
    /\ c_pc = "decoded" /\ c_ty = "PublicKey" /\ c_hits = {132}
    /\ ~FieldDecodes(c_bytes, FieldAt(c_ty, 132))
    /\ \A k \in (1 .. NumFields(c_ty)) \ {132} : FieldDecodes(c_bytes, FieldAt(c_ty, k))
    /\ ~c_out.is_some

\* C8: whatever the input, from_bytes makes the same from_compressed calls,
\* one per sub-field in the order of the layout, and the flag it returns is
\* the conjunction of the flags of these calls.
C8_DecodesEveryField ==
    c_pc = "decoded" =>
        /\ Len(c_out.calls) = NumFields(c_ty)
        /\ \A k \in 1 .. Len(c_out.calls) :
              /\ c_out.calls[k].kind = FieldAt(c_ty, k).kind
              /\ c_out.calls[k].at = FieldAt(c_ty, k).at
        /\ (c_out.is_some <=> \A k \in 1 .. Len(c_out.calls) : c_out.calls[k].ok)

\* C8's case: the first sub-field of a PublicKey failed to decode, all
\* sub-fields after it were decoded nonetheless, and from_bytes returned none
C8_Witness ==
    /\ c_pc = "decoded" /\ c_ty = "PublicKey"
    /\ Len(c_out.calls) = 260
    /\ ~c_out.calls[1].ok
    /\ \A k \in 2 .. 260 : c_out.calls[k].ok
    /\ ~c_out.is_some

====
